---- MODULE Spec2Model ----
(***************************************************************************)
(* A model of src/reference/projections.rs: the per-theatre transverse-    *)
(* Mercator parameter table, the conversion pipeline                       *)
(* (dcs_to_lat_lon_formatted and its two aliases), the planar offset and   *)
(* the decimal-degrees -> DMS codec with its display formatting.           *)
(*                                                                         *)
(* Numbers.  f64 values that the code only stores or prints (the table's   *)
(* false eastings/northings and scale factor) are the strings of their     *)
(* decimal literals.  f64 values the code computes with are fixed-point:   *)
(*   - a decimal angle is [neg, hi, w, f], meaning                         *)
(*       (-1)^neg * (hi * 2^31 + w + f / Scale),  0 <= w < 2^31,           *)
(*     so that magnitudes beyond the i32 range of DMS.degrees exist;       *)
(*   - a planar coordinate or distance is an integer number of 1/PScale.   *)
(***************************************************************************)
EXTENDS Integers, Sequences, FiniteSets, TLC

VARIABLES
    pc,          \* position inside the conversion call
    call,        \* the call's arguments: entry point, x, y, theatre
    projection,  \* what projection_from_theatre returned
    proj,        \* what proj_from_map returned
    latlon,      \* what convert_dcs_lat_lon returned
    result,      \* how the call ended
    steps,       \* the pipeline steps executed in this call, in order
    engineLog,   \* the requests made to the projection engine in this call
    lookups,     \* the direct registry lookups made so far
    offPc,       \* how many offset calls were made from the start point
    leg1,        \* the first offset call: arguments and result
    leg2,        \* the second offset call, made from the first one's result
    dmsIn,       \* the arguments of the last decimal_to_dms call
    dmsOut,      \* its result
    formatted    \* format_dms of that result, once formatted

vars == <<pc, call, projection, proj, latlon, result, steps, engineLog,
          lookups, offPc, leg1, leg2, dmsIn, dmsOut, formatted>>

facadeVars == <<pc, call, projection, proj, latlon, result, steps, engineLog>>
offsetVars == <<offPc, leg1, leg2>>
dmsVars == <<dmsIn, dmsOut, formatted>>

-----------------------------------------------------------------------------
(* Result<T, anyhow::Error> *)

Ok(v) == [ok |-> TRUE, val |-> v]
Err(m) == [ok |-> FALSE, err |-> m]

-----------------------------------------------------------------------------
(* The parameter table *)

PG == [central_meridian |-> 57, false_easting |-> "75755.99999999645",
       false_northing |-> "-2894933.0000000377", scale_factor |-> "0.9996"]

SA == [central_meridian |-> -57, false_easting |-> "147639.99999997593",
       false_northing |-> "5815417.000000032", scale_factor |-> "0.9996"]

CAUC == [central_meridian |-> 33, false_easting |-> "-99516.99999997323",
         false_northing |-> "-4998114.999999984", scale_factor |-> "0.9996"]

MAR == [central_meridian |-> 147, false_easting |-> "238417.99999989968",
        false_northing |-> "-1491840.000000048", scale_factor |-> "0.9996"]

NV == [central_meridian |-> -117, false_easting |-> "-193996.80999964548",
       false_northing |-> "-4410028.063999966", scale_factor |-> "0.9996"]

NORM == [central_meridian |-> -3, false_easting |-> "-195526.00000000204",
         false_northing |-> "-5484812.999999951", scale_factor |-> "0.9996"]

SY == [central_meridian |-> 39, false_easting |-> "282801.00000003993",
       false_northing |-> "-3879865.9999999935", scale_factor |-> "0.9996"]

SI == [central_meridian |-> 33, false_easting |-> "169221.9999999585",
       false_northing |-> "-3325312.9999999693", scale_factor |-> "0.9996"]

(* A plausible slip in the match: SinaiMap's arm returns the record of the  *)
(* other theatre on meridian 33.                                            *)
projection_from_theatre_swapped(theatre) ==
    CASE theatre = "PersianGulf" -> Ok(PG)
      [] theatre = "Falklands" -> Ok(SA)
      [] theatre = "Caucasus" -> Ok(CAUC)
      [] theatre = "MarianaIslands" -> Ok(MAR)
      [] theatre = "Nevada" -> Ok(NV)
      [] theatre = "Normandy" -> Ok(NORM)
      [] theatre = "Syria" -> Ok(SY)
      [] theatre = "SinaiMap" -> Ok(CAUC)
      [] OTHER -> Err("TransverseMercator not known for " \o theatre)

(* A plausible slip in the match: the wildcard arm falls back to a default. *)
projection_from_theatre_default(theatre) ==
    CASE theatre = "PersianGulf" -> Ok(PG)
      [] theatre = "Falklands" -> Ok(SA)
      [] theatre = "Caucasus" -> Ok(CAUC)
      [] theatre = "MarianaIslands" -> Ok(MAR)
      [] theatre = "Nevada" -> Ok(NV)
      [] theatre = "Normandy" -> Ok(NORM)
      [] theatre = "Syria" -> Ok(SY)
      [] theatre = "SinaiMap" -> Ok(SI)
      [] OTHER -> Ok(CAUC)

projection_from_theatre(theatre) ==
    CASE theatre = "PersianGulf" -> Ok(PG)
      [] theatre = "Falklands" -> Ok(SA)
      [] theatre = "Caucasus" -> Ok(CAUC)
      [] theatre = "MarianaIslands" -> Ok(MAR)
      [] theatre = "Nevada" -> Ok(NV)
      [] theatre = "Normandy" -> Ok(NORM)
      [] theatre = "Syria" -> Ok(SY)
      [] theatre = "SinaiMap" -> Ok(SI)
      [] OTHER -> Err("TransverseMercator not known for " \o theatre)

-----------------------------------------------------------------------------
(* Fixed-point numbers *)

Scale == 3600 * 3000      \* a decimal angle's f counts 1/3000 arc-seconds
MinuteUnits == Scale \div 60
I32Max == 2147483647

F(neg, hi, w, f) == [neg |-> neg, hi |-> hi, w |-> w, f |-> f]

(* d degrees, m minutes and k/3000 seconds, negated when neg *)
Angle(neg, d, m, k) == F(neg, 0, d, m * MinuteUnits + k)

-----------------------------------------------------------------------------
(* The inputs of a conversion call *)

Registered == {"PersianGulf", "Falklands", "Caucasus", "MarianaIslands",
               "Nevada", "Normandy", "Syria", "SinaiMap"}

UpperChars == "ABCDEFGHIJKLMNOPQRSTUVWXYZ"
LowerChars == "abcdefghijklmnopqrstuvwxyz"

CharAt(s, i) == SubSeq(s, i, i)

MapChar(c, from, to) ==
    IF \E i \in 1..Len(from) : CharAt(from, i) = c
    THEN CharAt(to, CHOOSE i \in 1..Len(from) : CharAt(from, i) = c)
    ELSE c

RECURSIVE MapString(_, _, _)
MapString(s, from, to) ==
    IF Len(s) = 0 THEN s
    ELSE MapChar(CharAt(s, 1), from, to) \o MapString(SubSeq(s, 2, Len(s)), from, to)

ToLower(s) == MapString(s, UpperChars, LowerChars)
ToUpper(s) == MapString(s, LowerChars, UpperChars)

(* the registered names, and for each its case variants, its proper prefix  *)
(* and suffix one character short, and itself with a character added at     *)
(* either end; plus the empty string and names of no theatre                *)
TheatreInputs ==
    Registered
    \cup {ToLower(n) : n \in Registered}
    \cup {ToUpper(n) : n \in Registered}
    \cup {SubSeq(n, 1, Len(n) - 1) : n \in Registered}
    \cup {SubSeq(n, 2, Len(n)) : n \in Registered}
    \cup {n \o "s" : n \in Registered}
    \cup {" " \o n : n \in Registered}
    \cup {"", "Sinai", "TheChannel"}

(* planar points, whole metres: the unit test's point (rounded), the grid   *)
(* origin, and a point far outside every theatre                            *)
PlanarInputs == {<<-100594, -88875>>, <<0, 0>>, <<2000000000, -2000000000>>}

EntryPoints == {"dcs_to_lat_lon_formatted", "convert_bullseye", "convert_waypoint"}

(* what the engine may answer to a forward transform: a pair of decimal     *)
(* angles (55.3652612, 25.25637587 of the unit test; a south-west pair; a   *)
(* pair on the equator and the central meridian), or an error               *)
EngineConvertOutcomes ==
    { Ok(<<Angle(FALSE, 55, 21, 164820), Angle(FALSE, 25, 15, 68859)>>),
      Ok(<<Angle(TRUE, 57, 51, 0), Angle(TRUE, 51, 41, 90000)>>),
      Ok(<<Angle(FALSE, 0, 0, 0), Angle(TRUE, 0, 59, 179999)>>),
      Err("Conversion") }

(* what the engine may answer to a request for a projection handle *)
EngineBuildOutcomes == {"handle", "rejected"}

-----------------------------------------------------------------------------
(* f64 and i32 arithmetic on the fixed-point numbers *)

(* f64::abs *)
FAbs(v) == [v EXCEPT !.neg = FALSE]

IsZero(v) == v.hi = 0 /\ v.w = 0 /\ v.f = 0

(* value >= 0.0; the negative zero compares equal to zero *)
FGeZero(v) == ~v.neg \/ IsZero(v)

(* f64::trunc followed by `as i32`, a saturating cast *)
TruncAsI32(a) ==
    IF a.neg
    THEN IF a.hi > 0 THEN -I32Max - 1 ELSE -a.w
    ELSE IF a.hi > 0 THEN I32Max ELSE a.w

(* a - (n as f64), for a >= n >= 0; exact in f64 as in the model *)
FSubInt(a, n) ==
    IF a.hi > 0 /\ a.w <= n - 1
    THEN F(FALSE, a.hi - 1, ((I32Max - n) + 1) + a.w, a.f)
    ELSE F(FALSE, a.hi, a.w - n, a.f)

(* a * 60.0, for a >= 0, with the carry into hi: 2^31 = 60 * K + 8 *)
FMul60(a) ==
    LET q == (a.f * 60) \div Scale
        r == (a.f * 60) % Scale
        K == I32Max \div 60
        aa == a.w \div K
        b == a.w % K
        low == (60 * b - 8 * aa) + q
    IN  IF low < 0
        THEN F(FALSE, 60 * a.hi + aa - 1, (I32Max + low) + 1, r)
        ELSE F(FALSE, 60 * a.hi + aa, low, r)

-----------------------------------------------------------------------------
(* The DMS codec *)

DMS(degrees, minutes, seconds, direction) ==
    [degrees |-> degrees, minutes |-> minutes, seconds |-> seconds,
     direction |-> direction]

(* A plausible slip: the degrees are taken from the signed value. *)
decimal_to_dms_signed(value, is_latitude) ==
    LET abs_value == FAbs(value)
        degrees == TruncAsI32(value)
        minutes_float == FMul60(FSubInt(abs_value, TruncAsI32(abs_value)))
        minutes == TruncAsI32(minutes_float)
        seconds == FMul60(FSubInt(minutes_float, minutes))
        direction == IF is_latitude
                     THEN IF FGeZero(value) THEN "N" ELSE "S"
                     ELSE IF FGeZero(value) THEN "E" ELSE "W"
    IN  DMS(degrees, minutes, seconds, direction)

(* A plausible slip: the seconds are the minutes' fraction, never scaled    *)
(* back by the whole minutes (minutes_float * 60 instead of the remainder). *)
decimal_to_dms_unreduced(value, is_latitude) ==
    LET abs_value == FAbs(value)
        degrees == TruncAsI32(abs_value)
        minutes_float == FMul60(FSubInt(abs_value, degrees))
        minutes == TruncAsI32(minutes_float)
        seconds == FMul60(minutes_float)
        direction == IF is_latitude
                     THEN IF FGeZero(value) THEN "N" ELSE "S"
                     ELSE IF FGeZero(value) THEN "E" ELSE "W"
    IN  DMS(degrees, minutes, seconds, direction)

decimal_to_dms(value, is_latitude) ==
    LET abs_value == FAbs(value)
        degrees == TruncAsI32(abs_value)
        minutes_float == FMul60(FSubInt(abs_value, degrees))
        minutes == TruncAsI32(minutes_float)
        seconds == FMul60(FSubInt(minutes_float, minutes))
        direction == IF is_latitude
                     THEN IF FGeZero(value) THEN "N" ELSE "S"
                     ELSE IF FGeZero(value) THEN "E" ELSE "W"
    IN  DMS(degrees, minutes, seconds, direction)

(* {:02} of an i32 *)
Fmt02(n) == IF 0 <= n /\ n < 10 THEN "0" \o ToString(n) ELSE ToString(n)

(* {:03} of a number below 1000 *)
Fmt03(n) ==
    IF n < 10 THEN "00" \o ToString(n)
    ELSE IF n < 100 THEN "0" \o ToString(n) ELSE ToString(n)

(* seconds (a non-negative f64 below 2^31) rounded to three decimals, in    *)
(* thousandths: the digits {:.3} prints, ties to even                       *)
RoundMilli(seconds) ==
    LET unit == Scale \div 1000
        q == seconds.f \div unit
        rem == seconds.f % unit
        up == (2 * rem > unit) \/ (2 * rem = unit /\ q % 2 = 1)
    IN  seconds.w * 1000 + (IF up THEN q + 1 ELSE q)

(* {:06.3} of a non-negative f64: three decimals, zero-padded to width 6 *)
Fmt063(seconds) ==
    LET milli == RoundMilli(seconds)
        body == ToString(milli \div 1000) \o "." \o Fmt03(milli % 1000)
    IN  IF milli \div 1000 < 10 THEN "0" \o body ELSE body

format_dms(dms) ==
    ToString(dms.degrees) \o "°" \o Fmt02(dms.minutes) \o "'"
        \o Fmt063(dms.seconds) \o "\"" \o dms.direction

LatLonCoordinate(lat_decimal, lon_decimal, lat_dms, lon_dms) ==
    [lat_decimal |-> lat_decimal, lon_decimal |-> lon_decimal,
     lat_dms |-> lat_dms, lon_dms |-> lon_dms]

format_coordinate(coord) ==
    format_dms(coord.lat_dms) \o " " \o format_dms(coord.lon_dms)

-----------------------------------------------------------------------------
(* The planar offset *)

PScale == 10 * 100        \* a coordinate or distance counts 1/1000 metres
TrigScale == 100 * 100    \* a cosine or sine counts 1/10000

MaxTurns == 1             \* bearings range over -MaxTurns .. MaxTurns + 1 turns
MaxDist == 10             \* the longest distance, in metres

BearingStep == 360 \div 24

(* n / k rounded to the nearest integer, ties away from zero: the rounding  *)
(* of a product is symmetric in the sign, as in f64                         *)
RoundDiv(n, k) ==
    IF n >= 0 THEN (2 * n + k) \div (2 * k) ELSE -((2 * (-n) + k) \div (2 * k))

(* cos of 0, 15, .. 90 degrees *)
CosTable == [a \in {0, 15, 30, 45, 60, 75, 90} |->
                CASE a = 0 -> 10000 [] a = 15 -> 9659 [] a = 30 -> 8660
                  [] a = 45 -> 7071 [] a = 60 -> 5000 [] a = 75 -> 2588
                  [] a = 90 -> 0]

(* f64::to_radians: an angle as a multiple of pi / 180 *)
to_radians(deg) == [pi180 |-> deg]

(* f64::cos, periodic in the full turn *)
cos(rad) ==
    LET a == rad.pi180 % 360
    IN  IF a <= 90 THEN CosTable[a]
        ELSE IF a <= 180 THEN -CosTable[180 - a]
        ELSE IF a <= 270 THEN -CosTable[a - 180]
        ELSE CosTable[360 - a]

(* f64::sin *)
sin(rad) == cos([pi180 |-> rad.pi180 - 90])

(* distance_m * c, a product of a distance and a cosine or sine *)
MulTrig(distance_m, c) == RoundDiv(distance_m * c, TrigScale)

(* A plausible slip: the bearing is a compass bearing, 0 along +y and       *)
(* clockwise, as the unit tests expect.                                     *)
offset_compass(x_init, y_init, axis_deg, distance_m) ==
    LET axis_rad == to_radians(axis_deg - 0)
        x2 == x_init + MulTrig(distance_m, sin(axis_rad))
        y2 == y_init + MulTrig(distance_m, cos(axis_rad))
    IN  <<x2, y2>>

(* A plausible slip: the bearing is normalised to a half turn first. *)
offset_half_turn(x_init, y_init, axis_deg, distance_m) ==
    LET axis_rad == to_radians((axis_deg - 0) % 180)
        x2 == x_init + MulTrig(distance_m, cos(axis_rad))
        y2 == y_init + MulTrig(distance_m, sin(axis_rad))
    IN  <<x2, y2>>

offset(x_init, y_init, axis_deg, distance_m) ==
    LET axis_rad == to_radians(axis_deg - 0)
        x2 == x_init + MulTrig(distance_m, cos(axis_rad))
        y2 == y_init + MulTrig(distance_m, sin(axis_rad))
    IN  <<x2, y2>>

Bearings == {BearingStep * k : k \in -24 * MaxTurns .. 24 * (MaxTurns + 1)}

Distances == {d * PScale : d \in {-MaxDist, 1, MaxDist}} \cup {PScale \div 4}

(* the unit tests' start point (10, 20) and a point of the Persian Gulf grid *)
StartPoints == {<<10 * PScale, 20 * PScale>>, <<-100594371, -88875371>>}

-----------------------------------------------------------------------------
(* The inputs of the DMS codec *)

MaxUlps == 3              \* how many steps below a whole minute or degree
MaxExcess == 1            \* how many whole degrees beyond 2^31

Fracs ==
    {0, 1, MinuteUnits, Scale \div 2,
     46 * MinuteUnits + 88920, 25 * MinuteUnits + 29520}
    \cup {MinuteUnits - k : k \in 1..MaxUlps}
    \cup {Scale - k : k \in 1..MaxUlps}

Wholes == {0, 37, 89, 122, 179}

(* 37.7749 and -122.4194 of the unit tests are among them, and both zeros;  *)
(* then the magnitudes at the edge of the i32 range and beyond it           *)
DmsInputs ==
    {F(neg, 0, w, f) : neg \in BOOLEAN, w \in Wholes, f \in Fracs}
    \cup {F(neg, 0, I32Max, f) : neg \in BOOLEAN, f \in {0, Scale \div 2}}
    \cup {F(neg, 1, w, f) : neg \in BOOLEAN, w \in 0..MaxExcess, f \in {0, Scale \div 2}}

(* |v| < 2^31: trunc(|v|) is an i32 *)
InI32Range(v) == v.hi = 0

-----------------------------------------------------------------------------
(* The state machine *)

None == <<>>
Some(v) == <<v>>

MaxLookups == 2           \* how many direct registry lookups are recorded

Init ==
    /\ pc = "idle"
    /\ call = None
    /\ projection = None
    /\ proj = None
    /\ latlon = None
    /\ result = None
    /\ steps = <<>>
    /\ engineLog = <<>>
    /\ lookups = <<>>
    /\ offPc = 0
    /\ leg1 = None
    /\ leg2 = None
    /\ dmsIn = None
    /\ dmsOut = None
    /\ formatted = None

(* The projection definition proj_from_map hands to the engine *)
ProjDefinition(map) ==
    "+proj=tmerc +lat_0=0 +lon_0=" \o ToString(map.central_meridian)
        \o " +k_0=" \o map.scale_factor
        \o " +x_0=" \o map.false_easting
        \o " +y_0=" \o map.false_northing

(* Proj::new_known_crs(definition, "WGS84", None).map_err(..), the engine    *)
(* answering `answer` *)
proj_from_map(map, answer) ==
    IF answer = "handle"
    THEN Ok([from |-> ProjDefinition(map), to |-> "WGS84"])
    ELSE Err("ProjCreateError")

(* proj.convert((y, x)).unwrap(), the engine answering `answer`: the value,  *)
(* or a panic *)
convert_dcs_lat_lon(x, y, handle, answer) ==
    IF answer.ok THEN [panicked |-> FALSE, val |-> answer.val]
    ELSE [panicked |-> TRUE, msg |-> "called Result::unwrap() on an Err value"]

(* A caller enters dcs_to_lat_lon_formatted, directly or through            *)
(* convert_bullseye or convert_waypoint, which only forward their arguments *)
Call(entry, x, y, theatre) ==
    /\ pc = "idle"
    /\ pc' = "lookup"
    /\ call' = Some([entry |-> entry, x |-> x, y |-> y, theatre |-> theatre])
    /\ projection' = None
    /\ proj' = None
    /\ latlon' = None
    /\ result' = None
    /\ steps' = <<>>
    /\ engineLog' = <<>>
    /\ UNCHANGED <<lookups, offsetVars, dmsVars>>

(* let projection = projection_from_theatre(theatre)?; *)
StepLookup ==
    /\ pc = "lookup"
    /\ LET r == projection_from_theatre(call[1].theatre)
       IN  /\ projection' = Some(r)
           /\ IF r.ok
              THEN pc' = "build" /\ result' = result
              ELSE pc' = "returned" /\ result' = Some([kind |-> "err", msg |-> r.err])
    /\ steps' = Append(steps, "lookup")
    /\ UNCHANGED <<call, proj, latlon, engineLog, lookups, offsetVars, dmsVars>>

(* let proj = proj_from_map(&projection)?; *)
StepBuild ==
    /\ pc = "build"
    /\ \E answer \in EngineBuildOutcomes :
          LET r == proj_from_map(projection[1].val, answer)
          IN  /\ proj' = Some(r)
              /\ IF r.ok
                 THEN pc' = "transform" /\ result' = result
                 ELSE pc' = "returned" /\ result' = Some([kind |-> "err", msg |-> r.err])
    /\ steps' = Append(steps, "build")
    /\ engineLog' = Append(engineLog,
                           [request |-> "new_known_crs",
                            arg |-> ProjDefinition(projection[1].val),
                            failed |-> ~proj'[1].ok])
    /\ UNCHANGED <<call, projection, latlon, lookups, offsetVars, dmsVars>>

(* let (lat, lon) = convert_dcs_lat_lon(x, y, &proj); *)
StepTransform ==
    /\ pc = "transform"
    /\ \E answer \in EngineConvertOutcomes :
          LET r == convert_dcs_lat_lon(call[1].x, call[1].y, proj[1].val, answer)
          IN  IF r.panicked
              THEN /\ pc' = "panicked"
                   /\ result' = Some([kind |-> "panic", msg |-> r.msg])
                   /\ latlon' = latlon
              ELSE /\ pc' = "encode"
                   /\ result' = result
                   /\ latlon' = Some(r.val)
    /\ steps' = Append(steps, "transform")
    /\ engineLog' = Append(engineLog,
                           [request |-> "convert",
                            arg |-> <<call[1].y, call[1].x>>,
                            failed |-> pc' = "panicked"])
    /\ UNCHANGED <<call, projection, proj, lookups, offsetVars, dmsVars>>

(* Ok(LatLonCoordinate { .. }) *)
StepEncode ==
    /\ pc = "encode"
    /\ LET lat == latlon[1][1]
           lon == latlon[1][2]
       IN  result' = Some([kind |-> "ok",
                           coord |-> LatLonCoordinate(lat, lon,
                                                      decimal_to_dms(lat, TRUE),
                                                      decimal_to_dms(lon, FALSE))])
    /\ pc' = "returned"
    /\ steps' = Append(steps, "encode")
    /\ UNCHANGED <<call, projection, proj, latlon, engineLog, lookups, offsetVars, dmsVars>>

(* The caller has the call's result and may call again *)
Return ==
    /\ pc = "returned"
    /\ pc' = "idle"
    /\ call' = None
    /\ projection' = None
    /\ proj' = None
    /\ latlon' = None
    /\ result' = None
    /\ steps' = <<>>
    /\ engineLog' = <<>>
    /\ UNCHANGED <<lookups, offsetVars, dmsVars>>

Next ==
    \/ \E entry \in EntryPoints, p \in PlanarInputs, theatre \in TheatreInputs :
          Call(entry, p[1], p[2], theatre)
    \/ StepLookup
    \/ StepBuild
    \/ StepTransform
    \/ StepEncode
    \/ Return

Spec == Init /\ [][Next]_vars

(* A direct call of projection_from_theatre *)
Lookup(theatre) ==
    /\ Len(lookups) < MaxLookups
    /\ lookups' = Append(lookups, [theatre |-> theatre,
                                   result |-> projection_from_theatre(theatre)])
    /\ UNCHANGED <<facadeVars, offsetVars, dmsVars>>

NextRegistry == \E theatre \in TheatreInputs : Lookup(theatre)

SpecRegistry == Init /\ [][NextRegistry]_vars

Leg(x, y, axis_deg, distance_m) ==
    [x |-> x, y |-> y, axis_deg |-> axis_deg, distance_m |-> distance_m,
     out |-> offset(x, y, axis_deg, distance_m)]

(* offset from a start point *)
OffsetFirst(p, axis_deg, distance_m) ==
    /\ offPc = 0
    /\ offPc' = 1
    /\ leg1' = Some(Leg(p[1], p[2], axis_deg, distance_m))
    /\ leg2' = None
    /\ UNCHANGED <<facadeVars, lookups, dmsVars>>

(* offset again, from the point the first call returned *)
OffsetSecond(axis_deg, distance_m) ==
    /\ offPc = 1
    /\ offPc' = 2
    /\ leg2' = Some(Leg(leg1[1].out[1], leg1[1].out[2], axis_deg, distance_m))
    /\ leg1' = leg1
    /\ UNCHANGED <<facadeVars, lookups, dmsVars>>

OffsetRestart ==
    /\ offPc = 2
    /\ offPc' = 0
    /\ leg1' = None
    /\ leg2' = None
    /\ UNCHANGED <<facadeVars, lookups, dmsVars>>

NextOffset ==
    \/ \E p \in StartPoints, b \in Bearings, d \in Distances : OffsetFirst(p, b, d)
    \/ \E b \in Bearings, d \in Distances : OffsetSecond(b, d)
    \/ OffsetRestart

SpecOffset == Init /\ [][NextOffset]_vars

(* decimal_to_dms(value, is_latitude) *)
DmsCall(value, is_latitude) ==
    /\ dmsIn' = Some([value |-> value, is_latitude |-> is_latitude])
    /\ dmsOut' = Some(decimal_to_dms(value, is_latitude))
    /\ formatted' = None
    /\ UNCHANGED <<facadeVars, lookups, offsetVars>>

(* format_dms(&dms) of the value decimal_to_dms returned *)
FormatCall ==
    /\ dmsOut /= None
    /\ formatted = None
    /\ formatted' = Some(format_dms(dmsOut[1]))
    /\ UNCHANGED <<dmsIn, dmsOut, facadeVars, lookups, offsetVars>>

NextDms ==
    \/ \E value \in DmsInputs, is_latitude \in BOOLEAN : DmsCall(value, is_latitude)
    \/ FormatCall

SpecDms == Init /\ [][NextDms]_vars

-----------------------------------------------------------------------------
(* Properties of the conversion call (Spec) *)

Pipeline == <<"lookup", "build", "transform", "encode">>

IsPrefix(s, t) == Len(s) <= Len(t) /\ SubSeq(t, 1, Len(s)) = s

Ended == pc \in {"returned", "panicked"}

EngineFailed(request) ==
    \E i \in 1..Len(engineLog) :
        engineLog[i].request = request /\ engineLog[i].failed

CompleteCoordinate(c) ==
    /\ DOMAIN c = {"lat_decimal", "lon_decimal", "lat_dms", "lon_dms"}
    /\ DOMAIN c.lat_dms = {"degrees", "minutes", "seconds", "direction"}
    /\ DOMAIN c.lon_dms = {"degrees", "minutes", "seconds", "direction"}

(* C1: a conversion call ends in a complete coordinate or in a returned     *)
(* error value, and when the engine fails the forward transform the call    *)
(* returns an error: it does not panic.                                     *)
C1_EndsInCoordinateOrError ==
    Ended =>
        /\ \/ result[1].kind = "ok" /\ CompleteCoordinate(result[1].coord)
           \/ result[1].kind = "err"
        /\ EngineFailed("convert") => result[1].kind = "err"

(* The steps run in the pipeline's order, each at most once, the engine is  *)
(* asked only after the step before succeeded, and nothing runs after a     *)
(* failed step.                                                             *)
PipelineOrder ==
    /\ IsPrefix(steps, Pipeline)
    /\ Len(steps) >= 2 => projection[1].ok
    /\ Len(steps) >= 3 => proj[1].ok
    /\ Len(steps) >= 4 => ~EngineFailed("convert")
    /\ Len(engineLog) = (IF Len(steps) >= 3 THEN 2 ELSE IF Len(steps) = 2 THEN 1 ELSE 0)
    /\ \A i \in 1..Len(engineLog) :
          engineLog[i].request = (IF i = 1 THEN "new_known_crs" ELSE "convert")

(* A failed step's error is what the call returns. *)
StepErrorReturned ==
    /\ (projection /= None /\ ~projection[1].ok) =>
          pc = "returned" /\ result = Some([kind |-> "err", msg |-> projection[1].err])
    /\ (proj /= None /\ ~proj[1].ok) =>
          pc = "returned" /\ result = Some([kind |-> "err", msg |-> proj[1].err])
    /\ EngineFailed("convert") =>
          pc = "returned" /\ result /= None /\ result[1].kind = "err"

(* On success the transform's first component is lat_decimal, encoded as a  *)
(* latitude, and its second is lon_decimal, encoded as a longitude.         *)
SuccessAssembled ==
    (result /= None /\ result[1].kind = "ok") =>
        LET c == result[1].coord
        IN  /\ steps = Pipeline
            /\ c.lat_decimal = latlon[1][1]
            /\ c.lon_decimal = latlon[1][2]
            /\ c.lat_dms.direction \in {"N", "S"}
            /\ c.lon_dms.direction \in {"E", "W"}
            /\ c.lat_dms.degrees = c.lat_decimal.w
            /\ c.lon_dms.degrees = c.lon_decimal.w

(* C10: in every conversion call the steps run in the order lookup, build,  *)
(* transform, encode, each at most once; a step runs only after the one     *)
(* before succeeded; when a step fails the call returns that step's error   *)
(* with no later step executed; on success the transform's components       *)
(* become lat_decimal (N/S) and lon_decimal (E/W) in that order.            *)
C10_PipelineOrderAndErrors ==
    PipelineOrder /\ StepErrorReturned /\ SuccessAssembled

-----------------------------------------------------------------------------
(* Properties of the registry (SpecRegistry) *)

EndsWith(s, t) == Len(t) <= Len(s) /\ SubSeq(s, Len(s) - Len(t) + 1, Len(s)) = t

(* C2: a lookup of an identifier that is not exactly one of the eight       *)
(* registered names returns an error that carries the identifier; case      *)
(* variants, prefixes and suffixes of a registered name are rejected too,   *)
(* and nothing falls back to a default record.                              *)
C2_UnknownTheatreRejected ==
    \A i \in 1..Len(lookups) :
        lookups[i].theatre \notin Registered =>
            /\ ~lookups[i].result.ok
            /\ EndsWith(lookups[i].result.err, lookups[i].theatre)

IsVariantOf(t, n) ==
    /\ t /= n
    /\ \/ ToLower(t) = ToLower(n)
       \/ IsPrefix(t, n)
       \/ EndsWith(n, t)
       \/ IsPrefix(n, t)

C2_VariantRejected ==
    \E i \in 1..Len(lookups) :
        /\ \E n \in Registered : IsVariantOf(lookups[i].theatre, n)
        /\ lookups[i].theatre /= ""
        /\ ~lookups[i].result.ok
        /\ lookups[i].result.err = "TransverseMercator not known for " \o lookups[i].theatre

(* the parameters documented for each theatre: identifier, record name's    *)
(* central meridian, false easting, false northing, scale factor            *)
Documented ==
    { <<"PersianGulf", 57, "75755.99999999645", "-2894933.0000000377", "0.9996">>,
      <<"Falklands", -57, "147639.99999997593", "5815417.000000032", "0.9996">>,
      <<"Caucasus", 33, "-99516.99999997323", "-4998114.999999984", "0.9996">>,
      <<"MarianaIslands", 147, "238417.99999989968", "-1491840.000000048", "0.9996">>,
      <<"Nevada", -117, "-193996.80999964548", "-4410028.063999966", "0.9996">>,
      <<"Normandy", -3, "-195526.00000000204", "-5484812.999999951", "0.9996">>,
      <<"Syria", 39, "282801.00000003993", "-3879865.9999999935", "0.9996">>,
      <<"SinaiMap", 33, "169221.9999999585", "-3325312.9999999693", "0.9996">> }

(* C8: a lookup of a registered identifier succeeds with that theatre's own *)
(* documented record, and repeated lookups return the same record.          *)
C8_RegisteredTheatreParameters ==
    /\ \A i \in 1..Len(lookups) :
          \A d \in Documented :
              lookups[i].theatre = d[1] =>
                  /\ lookups[i].result.ok
                  /\ lookups[i].result.val =
                        [central_meridian |-> d[2], false_easting |-> d[3],
                         false_northing |-> d[4], scale_factor |-> d[5]]
    /\ \A i, j \in 1..Len(lookups) :
          lookups[i].theatre = lookups[j].theatre =>
              lookups[i].result = lookups[j].result

C8_SinaiLookedUpTwice ==
    /\ Len(lookups) >= 2
    /\ lookups[1].theatre = "SinaiMap"
    /\ lookups[2].theatre = "SinaiMap"
    /\ lookups[1].result.ok
    /\ lookups[2].result.val.false_easting = "169221.9999999585"

-----------------------------------------------------------------------------
(* Properties of the planar offset (SpecOffset) *)

Legs == {l[1] : l \in {leg1, leg2} \ {None}}

C4_AxisBearingsOfTests ==
    \A l \in Legs :
        /\ l.axis_deg = 0 => l.out = <<l.x, l.y + l.distance_m>>
        /\ l.axis_deg = 90 => l.out = <<l.x + l.distance_m, l.y>>
        /\ l.axis_deg = 180 => l.out = <<l.x, l.y - l.distance_m>>
        /\ l.axis_deg = 270 => l.out = <<l.x - l.distance_m, l.y>>

Tolerance == PScale \div 1000

Near(a, b) == a - b <= Tolerance /\ b - a <= Tolerance

RoundTrip ==
    /\ leg1 /= None
    /\ leg2 /= None
    /\ leg2[1].axis_deg = leg1[1].axis_deg + 180
    /\ leg2[1].distance_m = leg1[1].distance_m
    /\ leg1[1].distance_m > 0

-----------------------------------------------------------------------------
(* Properties of the DMS codec (SpecDms) *)

(* n is the truncated absolute value of v *)
IsTruncAbs(n, v) == v.hi = 0 /\ n = v.w

(* 0 <= s < 60 *)
InSixty(s) == ~s.neg /\ s.hi = 0 /\ s.w <= 59

InDmsRange(d) ==
    /\ d.degrees >= 0
    /\ d.minutes \in 0..59
    /\ InSixty(d.seconds)

Letter(v, is_latitude) ==
    IF is_latitude
    THEN IF v.neg /\ ~IsZero(v) THEN "S" ELSE "N"
    ELSE IF v.neg /\ ~IsZero(v) THEN "W" ELSE "E"

(* C7 as stated: for every decimal angle v, degrees is the truncated        *)
(* absolute value of v, never negative, and the sign of v shows only in the *)
(* letter: N/S for a latitude, E/W for a longitude, N or E for v = 0.       *)
C7_DegreesAndLetterAnyAngle ==
    dmsOut /= None =>
        /\ IsTruncAbs(dmsOut[1].degrees, dmsIn[1].value)
        /\ dmsOut[1].degrees >= 0
        /\ dmsOut[1].direction = Letter(dmsIn[1].value, dmsIn[1].is_latitude)

(* C7 as amended: the same for every decimal angle v with |v| < 2^31; for   *)
(* a larger |v| the letter is as stated and degrees is 2^31 - 1.            *)
C7_DegreesAndLetterWithinI32 ==
    dmsOut /= None =>
        /\ InI32Range(dmsIn[1].value) =>
              IsTruncAbs(dmsOut[1].degrees, dmsIn[1].value)
        /\ ~InI32Range(dmsIn[1].value) => dmsOut[1].degrees = I32Max
        /\ dmsOut[1].degrees >= 0
        /\ dmsOut[1].direction = Letter(dmsIn[1].value, dmsIn[1].is_latitude)

(* -122.4194 as a longitude: 122 degrees, W *)
C7_WestLongitudeEncoded ==
    /\ dmsOut /= None
    /\ dmsIn[1] = [value |-> Angle(TRUE, 122, 25, 29520), is_latitude |-> FALSE]
    /\ dmsOut[1].degrees = 122
    /\ dmsOut[1].direction = "W"

Digits == "0123456789"

IsDigit(c) == \E i \in 1..10 : CharAt(Digits, i) = c

DigitValue(c) == (CHOOSE i \in 1..10 : CharAt(Digits, i) = c) - 1

IndexOf(s, c) == CHOOSE i \in 1..Len(s) : CharAt(s, i) = c

(* the text between the degree sign and the minute mark *)
MinutesField(s) == SubSeq(s, IndexOf(s, "°") + 1, IndexOf(s, "'") - 1)

(* the text between the minute mark and the second mark *)
SecondsField(s) == SubSeq(s, IndexOf(s, "'") + 1, IndexOf(s, "\"") - 1)

TwoDigits(s) == 10 * DigitValue(CharAt(s, 1)) + DigitValue(CharAt(s, 2))

(* MM, two digits, 00..59 *)
ValidMinutesField(s) ==
    /\ Len(s) = 2
    /\ \A i \in 1..2 : IsDigit(CharAt(s, i))
    /\ TwoDigits(s) <= 59

(* SS.sss, below 60.000 *)
ValidSecondsField(s) ==
    /\ Len(s) = 6
    /\ \A i \in {1, 2, 4, 5, 6} : IsDigit(CharAt(s, i))
    /\ CharAt(s, 3) = "."
    /\ TwoDigits(s) <= 59

(* C6: format_dms(decimal_to_dms(v, axis)) is a valid reading: its minutes  *)
(* field is the codec's minutes, two digits 00..59, and its seconds field,  *)
(* rounded to three decimals, is below 60.000 (stated here for |v| < 2^31,  *)
(* where the codec's own values are in range).                              *)
C6_FormattedReadingValid ==
    (formatted /= None /\ InI32Range(dmsIn[1].value)) =>
        /\ ValidMinutesField(MinutesField(formatted[1]))
        /\ TwoDigits(MinutesField(formatted[1])) = dmsOut[1].minutes
        /\ ValidSecondsField(SecondsField(formatted[1]))

====
